---- MODULE Spec2Model ----
(***************************************************************************)
(* Streaming classification and audit-logging engine of the RWA Guardian   *)
(* Agent: server/stream-engine.ts (evaluateReading, StreamGenerator),      *)
(* server/services/masumiService.ts (logAuditRecord) and the audit query   *)
(* route GET /api/blockchain-records of server/index.ts.                   *)
(*                                                                         *)
(* JavaScript runs every callback to completion, so one action is one      *)
(* synchronous segment of a handler: the code between two awaits.  Numbers *)
(* are integers: volts, amperes, and energy in units of 0.0001 kWh.        *)
(* Optional values (undefined in the code) are sequences of length 0 or 1. *)
(* A reading carries the set `malformed` of its fields that the JSON data   *)
(* left out or gave as something that is not a number; such a field        *)
(* compares false with every number and has no toFixed method.             *)
(***************************************************************************)
EXTENDS Integers, Sequences, FiniteSets, TLC

\* ---------------------------------------------------------------- bounds
MaxTicks == 3          \* timer firings of one run
MaxSubscribers == 2    \* entries of the subscribers array
MaxEvents == 3         \* calls of start, stop, subscribe, unsubscribe and attestation completions of one run
MaxFirings == 4        \* firings of the interval timer of a simulated session

\* ------------------------------------------------------ program constants
MaxRecords == 1000
SubmitDelayMs == 100
DefaultIntervalMs == 1000
EnergyDropUnits == 500

\* An interval shorter than the simulated submission delay, and the default.
Intervals == {50, DefaultIntervalMs}

Undefined == <<>>
Some(x) == <<x>>

Min(a, b) == IF a < b THEN a ELSE b
Max(a, b) == IF a > b THEN a ELSE b

\* Array.prototype.reverse on a copy.
Reverse(s) == [i \in 1..Len(s) |-> s[Len(s) + 1 - i]]

\* --------------------------------------------------------------- test data
TestReading(v, c, e) == [voltage |-> v, current |-> c, energyKWh |-> e, malformed |-> {}]

\* A reading of the data file whose fields `fields` are missing or not numbers.
MalformedReading(v, c, e, fields) == [TestReading(v, c, e) EXCEPT !.malformed = fields]

\* data/testing_data.json: two sessions, the first with a voltage anomaly.
SessionsA == << [sessionId |-> "s1", readings |-> <<TestReading(230, 10, 10), TestReading(265, 10, 20)>>],
                [sessionId |-> "s2", readings |-> <<TestReading(230, 10, 10)>>] >>

\* A data file with a reading without voltage and a reading without energyKWh.
SessionsB == << [sessionId |-> "b1",
                 readings |-> <<MalformedReading(0, 10, 10, {"voltage"}),
                                MalformedReading(230, 10, 0, {"energyKWh"}),
                                TestReading(230, 10, 30)>>] >>

\* A data file whose only session has no readings.
SessionsE == << [sessionId |-> "e1", readings |-> <<>>] >>

\* What start() can find at TEST_DATA_PATH: no file, a file that is not
\* JSON, a JSON object with no `sessions`, with an empty `sessions`, and
\* data files.
FileMissing == [exists |-> FALSE, parses |-> FALSE, hasSessions |-> FALSE, sessions |-> <<>>]
FileUnparsable == [exists |-> TRUE, parses |-> FALSE, hasSessions |-> FALSE, sessions |-> <<>>]
FileNoSessionsList == [exists |-> TRUE, parses |-> TRUE, hasSessions |-> FALSE, sessions |-> <<>>]
FileZeroSessions == [exists |-> TRUE, parses |-> TRUE, hasSessions |-> TRUE, sessions |-> <<>>]
FileA == [exists |-> TRUE, parses |-> TRUE, hasSessions |-> TRUE, sessions |-> SessionsA]
FileB == [exists |-> TRUE, parses |-> TRUE, hasSessions |-> TRUE, sessions |-> SessionsB]
FileE == [exists |-> TRUE, parses |-> TRUE, hasSessions |-> TRUE, sessions |-> SessionsE]
Files == {FileMissing, FileA}
SourceFiles ==
    {FileMissing, FileUnparsable, FileNoSessionsList, FileZeroSessions, FileA, FileB, FileE}

\* The fallback generator's draws of Math.random(): a normal reading, a
\* voltage dip and an energy drop.
RandomDraws == { [voltage |-> 230, current |-> 10, drop |-> FALSE],
                 [voltage |-> 180, current |-> 10, drop |-> FALSE],
                 [voltage |-> 230, current |-> 10, drop |-> TRUE] }

\* --------------------------------------------------------------- classifier
NoReason == "none"

\* evaluateReading did not return: a toFixed call threw a TypeError.
Thrown == [status |-> "TypeError", anomalyReason |-> NoReason]

\* evaluateReading testing the current before the voltage.
evaluateReadingCurrentFirst(reading, previousReading) ==
    IF "voltage" \in reading.malformed \/ "current" \in reading.malformed THEN Thrown
    ELSE IF reading.current < 0 THEN [status |-> "FRAUD", anomalyReason |-> "Current negative"]
    ELSE IF reading.current > 50 THEN [status |-> "FRAUD", anomalyReason |-> "Current too high"]
    ELSE IF reading.voltage < 200 THEN [status |-> "FRAUD", anomalyReason |-> "Voltage too low"]
    ELSE IF reading.voltage > 260 THEN [status |-> "FRAUD", anomalyReason |-> "Voltage too high"]
    ELSE IF /\ previousReading # Undefined
            /\ "energyKWh" \notin reading.malformed
            /\ "energyKWh" \notin previousReading[1].malformed
            /\ reading.energyKWh < previousReading[1].energyKWh
         THEN [status |-> "FRAUD", anomalyReason |-> "Energy decreased"]
    ELSE [status |-> "VALID", anomalyReason |-> NoReason]

\* evaluateReading with the thresholds themselves out of range.
evaluateReadingStrictRange(reading, previousReading) ==
    IF "voltage" \in reading.malformed THEN Thrown
    ELSE IF reading.voltage <= 200 THEN [status |-> "FRAUD", anomalyReason |-> "Voltage too low"]
    ELSE IF reading.voltage >= 260 THEN [status |-> "FRAUD", anomalyReason |-> "Voltage too high"]
    ELSE IF "current" \in reading.malformed THEN Thrown
    ELSE IF reading.current <= 0 THEN [status |-> "FRAUD", anomalyReason |-> "Current negative"]
    ELSE IF reading.current >= 50 THEN [status |-> "FRAUD", anomalyReason |-> "Current too high"]
    ELSE IF /\ previousReading # Undefined
            /\ "energyKWh" \notin reading.malformed
            /\ "energyKWh" \notin previousReading[1].malformed
            /\ reading.energyKWh < previousReading[1].energyKWh
         THEN [status |-> "FRAUD", anomalyReason |-> "Energy decreased"]
    ELSE [status |-> "VALID", anomalyReason |-> NoReason]

\* The log lines between the rules format voltage and current with toFixed,
\* the VALID line formats nothing with it.
evaluateReading(reading, previousReading) ==
    IF "voltage" \in reading.malformed THEN Thrown
    ELSE IF reading.voltage < 200 THEN [status |-> "FRAUD", anomalyReason |-> "Voltage too low"]
    ELSE IF reading.voltage > 260 THEN [status |-> "FRAUD", anomalyReason |-> "Voltage too high"]
    ELSE IF "current" \in reading.malformed THEN Thrown
    ELSE IF reading.current < 0 THEN [status |-> "FRAUD", anomalyReason |-> "Current negative"]
    ELSE IF reading.current > 50 THEN [status |-> "FRAUD", anomalyReason |-> "Current too high"]
    ELSE IF /\ previousReading # Undefined
            /\ "energyKWh" \notin reading.malformed
            /\ "energyKWh" \notin previousReading[1].malformed
            /\ reading.energyKWh < previousReading[1].energyKWh
         THEN [status |-> "FRAUD", anomalyReason |-> "Energy decreased"]
    ELSE [status |-> "VALID", anomalyReason |-> NoReason]

\* ------------------------------------------------------------------- state
VARIABLES
    intervalId,           \* TRUE while a setInterval timer is live
    intervalMs,           \* its period
    liveTimers,           \* ghost: the setInterval timers created and not cleared
    timer,                \* ms until the interval timer is due
    subscribers,          \* array of callbacks
    timestamp,
    energyKWh,            \* fallback generator's cumulative energy
    lastReading,          \* optional reading
    testSessions,
    testSessionsDefined,  \* FALSE when this.testSessions is undefined (json.sessions was absent)
    currentSessionIndex,  \* 0-based, as in the code
    currentReadingIndex,
    blockchainRecords,
    totalReadings,
    totalValid,
    totalFraud,
    inflight,             \* ticks suspended at the await of submitToBlockchain, oldest first
    pc,                   \* "idle" between callbacks; "pushed" and "submitted" inside a tick's continuation
    cur,                  \* the tick whose continuation is running (optional)
    pending,              \* ids of records whose logAuditRecord promise is unsettled
    published,            \* ghost: the last event published and the callbacks called with it, in call order (optional)
    fired,                \* ghost: readings classified ever; Date.now() of a reading is its ordinal
    started,              \* ghost: timer firings so far in this run
    freshStart,           \* ghost: start() was called and its timer has not fired yet
    appended,             \* ghost: records ever pushed
    unhandled,            \* ghost: the promises rejected with no handler: "tick", "attestation"
    events,               \* ghost: calls and attestation completions so far in this run
    verdicts,             \* ghost: the statuses evaluateReading has issued to ticks, in tick order
    projectId,            \* MASUMI_PROJECT_ID of the process
    checkRequest,         \* ghost: the body of the last POST /api/check-reading (optional)
    checkResponse,        \* ghost: the response it was answered with (optional)
    sessions,             \* GuardianAgent.sessions: the simulated session of the run (optional)
    simulationIntervals,  \* TRUE while the session's interval timer is registered and live
    simulationTimestamp,  \* `timestamp` of the closure of POST /api/sessions/start
    simulationDuration,   \* `duration` of that request
    addReadingCalls,      \* timestamps of the readings whose addReading awaits the fraud-detection response
    firings,              \* ghost: firings of the session's interval timer
    finalizations,        \* ghost: calls of finalizeSession
    cardanoSubmissions,   \* ghost: calls of submitToCardano
    stopRequests          \* ghost: POST /api/sessions/:sessionId/stop requests

vars == << intervalId, intervalMs, liveTimers, timer, subscribers, timestamp, energyKWh,
           lastReading, testSessions, testSessionsDefined, currentSessionIndex,
           currentReadingIndex, blockchainRecords, totalReadings, totalValid, totalFraud,
           inflight, pc, cur, pending, published, fired, started, freshStart, appended,
           unhandled, events, verdicts, projectId, checkRequest, checkResponse, sessions,
           simulationIntervals, simulationTimestamp, simulationDuration, addReadingCalls,
           firings, finalizations, cardanoSubmissions, stopRequests >>

\* The default project id, and the one that selects mock mode.
ProjectIds == {"1", "MOCK_PROJECT_ID"}

Callbacks == {"c1", "c2"}
\* c2 is a consumer whose callback throws.
Throwing == {"c2"}

\* Consumers whose callback calls back into the engine: "once" calls its own
\* unsubscribe function, "kick" calls the unsubscribe function of c1, "join"
\* subscribes c1.
ReentrantCallbacks == {"once", "kick", "join"}

\* this.subscribers after the callback `sub` has run: unsubscribe assigns a
\* filtered copy, subscribe pushes onto the array.
CallbackEffect(sub, subs) ==
    CASE sub = "once" -> SelectSeq(subs, LAMBDA s : s # "once")
      [] sub = "kick" -> SelectSeq(subs, LAMBDA s : s # "c1")
      [] sub = "join" -> Append(subs, "c1")
      [] OTHER -> subs

\* The GuardianAgent after construction: no session, no simulation.
NoSession ==
    /\ sessions = Undefined
    /\ simulationIntervals = FALSE
    /\ simulationTimestamp = 0
    /\ simulationDuration = 0
    /\ addReadingCalls = <<>>
    /\ firings = 0
    /\ finalizations = 0
    /\ cardanoSubmissions = 0
    /\ stopRequests = 0

Init ==
    /\ NoSession
    /\ intervalId = FALSE
    /\ intervalMs = 0
    /\ liveTimers = 0
    /\ timer = 0
    /\ subscribers = <<>>
    /\ timestamp = 0
    /\ energyKWh = 0
    /\ lastReading = Undefined
    /\ testSessions = <<>>
    /\ testSessionsDefined = TRUE
    /\ currentSessionIndex = 0
    /\ currentReadingIndex = 0
    /\ blockchainRecords = <<>>
    /\ totalReadings = 0
    /\ totalValid = 0
    /\ totalFraud = 0
    /\ inflight = <<>>
    /\ pc = "idle"
    /\ cur = Undefined
    /\ pending = {}
    /\ published = Undefined
    /\ fired = 0
    /\ started = 0
    /\ freshStart = FALSE
    /\ appended = 0
    /\ unhandled = {}
    /\ events = 0
    /\ verdicts = <<>>
    /\ projectId \in ProjectIds
    /\ checkRequest = Undefined
    /\ checkResponse = Undefined

\* ------------------------------------------------------------ start / stop
\* Startable if start() had no early return.
StartableAlways == TRUE

\* `if (this.intervalId) return;`
Startable == ~intervalId

\* start(intervalMs): no-op while a timer is live; otherwise loads the test
\* data and arms the timer.  A missing file, and a file JSON.parse rejects
\* (caught), leave testSessions as it was; a file with no `sessions` leaves
\* it undefined (the TypeError of the log line that follows is caught).
start(ms, file) ==
    /\ pc = "idle"
    /\ events < MaxEvents
    /\ events' = events + 1
    /\ Startable
    /\ liveTimers' = liveTimers + 1
    /\ testSessions' = IF file.exists /\ file.parses THEN file.sessions ELSE testSessions
    /\ testSessionsDefined' = IF file.exists /\ file.parses THEN file.hasSessions
                               ELSE testSessionsDefined
    /\ intervalId' = TRUE
    /\ intervalMs' = ms
    /\ timer' = ms
    /\ freshStart' = TRUE
    /\ UNCHANGED << subscribers, timestamp, energyKWh, lastReading, currentSessionIndex,
                    currentReadingIndex, blockchainRecords, totalReadings, totalValid,
                    totalFraud, inflight, pc, cur, pending, published, fired, started,
                    appended, unhandled, verdicts, projectId, checkRequest, checkResponse,
                    sessions, simulationIntervals, simulationTimestamp, simulationDuration,
                    addReadingCalls, firings, finalizations, cardanoSubmissions,
                    stopRequests >>

\* stop(): clearInterval(this.intervalId) if there is one.
stop ==
    /\ pc = "idle"
    /\ events < MaxEvents
    /\ events' = events + 1
    /\ intervalId
    /\ liveTimers' = liveTimers - 1
    /\ intervalId' = FALSE
    /\ timer' = 0
    /\ UNCHANGED << intervalMs, subscribers, timestamp, energyKWh, lastReading, testSessions,
                    testSessionsDefined, currentSessionIndex, currentReadingIndex,
                    blockchainRecords, totalReadings, totalValid, totalFraud, inflight, pc,
                    cur, pending, published, fired, started, freshStart, appended, unhandled,
                    verdicts, projectId, checkRequest, checkResponse, sessions,
                    simulationIntervals, simulationTimestamp, simulationDuration,
                    addReadingCalls, firings, finalizations, cardanoSubmissions,
                    stopRequests >>

\* ------------------------------------------------------------------- tick
\* First synchronous segment of tick(): the timer fires, the next reading is
\* taken from the replay data (or generated), the indices advance, the
\* reading is classified against lastReading, and the tick suspends at the
\* 100 ms await of submitToBlockchain.  Date.now() is the ordinal of the
\* reading among those classified.
tick(draw) ==
    /\ pc = "idle"
    /\ intervalId
    /\ timer = 0
    /\ started < MaxTicks
    /\ LET replay == Len(testSessions) > 0
           session == testSessions[currentSessionIndex + 1]
           testReading == session.readings[currentReadingIndex + 1]
           energyStep == (draw.voltage * draw.current) \div 360
           newEnergy == IF draw.drop THEN Max(0, energyKWh - EnergyDropUnits)
                        ELSE energyKWh + Max(0, energyStep)
           reading == IF replay
                      THEN [timestamp |-> fired + 1, voltage |-> testReading.voltage,
                            current |-> testReading.current, energyKWh |-> testReading.energyKWh,
                            malformed |-> testReading.malformed]
                      ELSE [timestamp |-> fired + 1, voltage |-> draw.voltage,
                            current |-> draw.current, energyKWh |-> newEnergy, malformed |-> {}]
           nextReadingIndex == currentReadingIndex + 1
           sessionDone == nextReadingIndex >= Len(session.readings)
           nextSessionIndex == IF currentSessionIndex + 1 >= Len(testSessions) THEN 0
                               ELSE currentSessionIndex + 1
           result == evaluateReading(reading, lastReading)
           noReading == \/ ~testSessionsDefined
                        \/ /\ replay
                           /\ \/ currentSessionIndex >= Len(testSessions)
                              \/ currentReadingIndex >= Len(session.readings)
       IN IF noReading
          THEN \* testSessions.length, session.readings or testReading.voltage
               \* throws on undefined: the tick's promise is rejected
               /\ unhandled' = unhandled \cup {"tick"}
               /\ currentReadingIndex' = currentReadingIndex
               /\ currentSessionIndex' = currentSessionIndex
               /\ energyKWh' = energyKWh
               /\ inflight' = inflight
               /\ verdicts' = verdicts
               /\ fired' = fired
          ELSE /\ currentReadingIndex' = IF ~replay THEN currentReadingIndex
                                          ELSE IF sessionDone THEN 0 ELSE nextReadingIndex
               /\ currentSessionIndex' = IF replay /\ sessionDone THEN nextSessionIndex
                                          ELSE currentSessionIndex
               /\ energyKWh' = IF replay THEN energyKWh ELSE newEnergy
               /\ IF result = Thrown
                  THEN \* evaluateReading throws: the tick's promise is rejected
                       /\ unhandled' = unhandled \cup {"tick"}
                       /\ inflight' = inflight
                       /\ verdicts' = verdicts
                       /\ fired' = fired
                  ELSE /\ unhandled' = unhandled
                       /\ inflight' = Append(inflight, [reading |-> reading, result |-> result,
                                                        previous |-> lastReading,
                                                        first |-> freshStart,
                                                        due |-> SubmitDelayMs])
                       /\ verdicts' = Append(verdicts, result.status)
                       /\ fired' = fired + 1
    /\ timer' = intervalMs
    /\ started' = started + 1
    /\ freshStart' = FALSE
    /\ UNCHANGED << intervalId, intervalMs, liveTimers, subscribers, timestamp, lastReading,
                    testSessions, testSessionsDefined, blockchainRecords, totalReadings,
                    totalValid, totalFraud, pc, cur, pending, published, appended, events,
                    projectId, checkRequest, checkResponse, sessions, simulationIntervals,
                    simulationTimestamp, simulationDuration, addReadingCalls, firings,
                    finalizations, cardanoSubmissions, stopRequests >>

\* The values Math.random() fabricates for the n-th record, as a fixed
\* pseudo-random sequence: no code of the engine reads them back.
Fabricated(n) ==
    [txHash |-> n, blockNumber |-> 5000000 + ((n * 7919) % 1000000),
     confirmations |-> 1 + ((n * 7) % 10)]

\* NewRecord recording no anomaly reason.
NewRecordNoReason(n, reading, result) ==
    [id |-> n, txHash |-> Fabricated(n).txHash, timestamp |-> reading.timestamp,
     status |-> result.status, anomalyReason |-> NoReason, reading |-> reading,
     blockNumber |-> Fabricated(n).blockNumber, confirmations |-> Fabricated(n).confirmations,
     isVerified |-> FALSE, masumiTxId |-> Undefined]

\* "Create initial record", the n-th of the process; nanoid(10) is n.
NewRecord(n, reading, result) ==
    [id |-> n, txHash |-> Fabricated(n).txHash, timestamp |-> reading.timestamp,
     status |-> result.status, anomalyReason |-> result.anomalyReason, reading |-> reading,
     blockNumber |-> Fabricated(n).blockNumber, confirmations |-> Fabricated(n).confirmations,
     isVerified |-> FALSE, masumiTxId |-> Undefined]

\* submitToBlockchain after its delay: the record is created, the attestation
\* call is fired and the record is pushed.
submitToBlockchain_push ==
    /\ pc = "idle"
    /\ inflight # <<>>
    /\ Head(inflight).due = 0
    /\ LET t == Head(inflight)
           record == NewRecord(appended + 1, t.reading, t.result)
       IN /\ pending' = pending \cup {record.id}
          /\ blockchainRecords' = Append(blockchainRecords, record)
          /\ cur' = Some([reading |-> t.reading, result |-> t.result, previous |-> t.previous,
                          first |-> t.first, record |-> record])
    /\ inflight' = Tail(inflight)
    /\ appended' = appended + 1
    /\ pc' = "pushed"
    /\ UNCHANGED << intervalId, intervalMs, liveTimers, timer, subscribers, timestamp,
                    energyKWh, lastReading, testSessions, testSessionsDefined,
                    currentSessionIndex, currentReadingIndex, totalReadings, totalValid,
                    totalFraud, published, fired, started, freshStart, unhandled, events,
                    verdicts, projectId, checkRequest, checkResponse, sessions,
                    simulationIntervals, simulationTimestamp, simulationDuration,
                    addReadingCalls, firings, finalizations, cardanoSubmissions,
                    stopRequests >>

\* Evict with the capacity test off by one.
EvictOffByOne(records) == IF Len(records) > MaxRecords + 1 THEN Tail(records) ELSE records

\* Evict removing the newest record (pop) instead of the oldest (shift).
EvictNewest(records) ==
    IF Len(records) > MaxRecords THEN SubSeq(records, 1, Len(records) - 1) ELSE records

\* Evict that keeps every record.
EvictNever(records) == records

\* "Keep only last 1000 records": the shift that follows the push.
Evict(records) == IF Len(records) > MaxRecords THEN Tail(records) ELSE records

submitToBlockchain_evict ==
    /\ pc = "pushed"
    /\ blockchainRecords' = Evict(blockchainRecords)
    /\ pc' = "submitted"
    /\ UNCHANGED << intervalId, intervalMs, liveTimers, timer, subscribers, timestamp,
                    energyKWh, lastReading, testSessions, testSessionsDefined,
                    currentSessionIndex, currentReadingIndex, totalReadings, totalValid,
                    totalFraud, inflight, cur, pending, published, fired, started, freshStart,
                    appended, unhandled, events, verdicts, projectId, checkRequest,
                    checkResponse, sessions, simulationIntervals, simulationTimestamp,
                    simulationDuration, addReadingCalls, firings, finalizations,
                    cardanoSubmissions, stopRequests >>

\* subscribers.forEach(sub => sub(data)): forEach walks the elements the
\* array had when it was called (`rest`), in array order, whatever the
\* callbacks do to this.subscribers (`subs`) meanwhile; the first callback
\* that throws ends the loop.
RECURSIVE Deliver(_, _, _)
Deliver(rest, subs, called) ==
    IF rest = <<>> THEN [called |-> called, threw |-> FALSE, subscribers |-> subs]
    ELSE LET sub == Head(rest)
         IN IF sub \in Throwing
            THEN [called |-> Append(called, sub), threw |-> TRUE, subscribers |-> subs]
            ELSE Deliver(Tail(rest), CallbackEffect(sub, subs), Append(called, sub))

\* UpdateStats counting a FRAUD verdict as a valid reading too.
UpdateStatsValidAlways(stats, status) ==
    [total |-> stats.total + 1, valid |-> stats.valid + 1,
     fraud |-> IF status = "VALID" THEN stats.fraud ELSE stats.fraud + 1]

\* UpdateStats counting only the VALID readings in the total.
UpdateStatsFraudUncounted(stats, status) ==
    [total |-> IF status = "VALID" THEN stats.total + 1 ELSE stats.total,
     valid |-> IF status = "VALID" THEN stats.valid + 1 ELSE stats.valid,
     fraud |-> IF status = "VALID" THEN stats.fraud ELSE stats.fraud + 1]

\* "Update stats": totalReadings++, then totalValid++ or totalFraud++.
UpdateStats(stats, status) ==
    [total |-> stats.total + 1,
     valid |-> IF status = "VALID" THEN stats.valid + 1 ELSE stats.valid,
     fraud |-> IF status = "VALID" THEN stats.fraud ELSE stats.fraud + 1]

\* Resumable if submitToBlockchain awaited the attestation call before it
\* returned the record.
ResumableOnceAttested == pc = "submitted" /\ cur[1].record.id \notin pending

\* The await of submitToBlockchain in tick() is over: the record was pushed
\* and returned; the attestation call was fired and is not waited for.
Resumable == pc = "submitted"

\* Rest of tick() after the await: counters, the event, the fan-out, and, if
\* the fan-out returned, lastReading and timestamp.
tick_resume ==
    /\ Resumable
    /\ LET t == cur[1]
           stats == UpdateStats([total |-> totalReadings, valid |-> totalValid,
                                 fraud |-> totalFraud], t.result.status)
           data == [timestamp |-> t.reading.timestamp, status |-> t.result.status,
                    anomalyReason |-> t.result.anomalyReason, blockchainRecord |-> t.record.id,
                    stats |-> stats]
           out == Deliver(subscribers, subscribers, <<>>)
       IN /\ totalReadings' = stats.total
          /\ totalValid' = stats.valid
          /\ totalFraud' = stats.fraud
          /\ published' = Some([data |-> data, subscribed |-> subscribers, called |-> out.called])
          /\ subscribers' = out.subscribers
          /\ unhandled' = (IF out.threw THEN unhandled \cup {"tick"} ELSE unhandled)
          /\ lastReading' = IF out.threw THEN lastReading ELSE Some(t.reading)
          /\ timestamp' = IF out.threw THEN timestamp ELSE timestamp + 1
          /\ pc' = "idle"
    /\ cur' = Undefined
    /\ UNCHANGED << intervalId, intervalMs, liveTimers, timer, energyKWh, testSessions,
                    testSessionsDefined, currentSessionIndex, currentReadingIndex,
                    blockchainRecords, inflight, pending, fired, started, freshStart, appended,
                    events, verdicts, projectId, checkRequest, checkResponse, sessions,
                    simulationIntervals, simulationTimestamp, simulationDuration,
                    addReadingCalls, firings, finalizations, cardanoSubmissions,
                    stopRequests >>

\* ------------------------------------------------------------ attestation
\* What the POST to /log can do, plus a failure while hashing the record.
Outcomes == {"http200", "http201", "http200_no_txid", "http204", "http500",
             "network_error", "timeout", "hash_error"}

\* MasumiService.logAuditRecord: the value its promise resolves to.
logAuditRecord(pid, outcome) ==
    IF pid = "MOCK_PROJECT_ID" THEN [txId |-> Some("0xlocal"), verified |-> TRUE]
    ELSE IF outcome = "hash_error" THEN [txId |-> Some(""), verified |-> FALSE]
    ELSE IF outcome \in {"http200", "http201"} THEN [txId |-> Some("0xremote"), verified |-> TRUE]
    ELSE IF outcome = "http200_no_txid" THEN [txId |-> Undefined, verified |-> TRUE]
    ELSE [txId |-> Some("0xlocal"), verified |-> TRUE]

\* Verify marking every record of the log.
VerifyAll(records, id, masumiResult) ==
    [i \in DOMAIN records |->
        IF masumiResult.verified
        THEN [records[i] EXCEPT !.masumiTxId = masumiResult.txId, !.isVerified = TRUE]
        ELSE records[i]]

\* Verify marking the newest record of the log instead of the captured one.
VerifyNewest(records, id, masumiResult) ==
    IF masumiResult.verified /\ records # <<>>
    THEN [records EXCEPT ![Len(records)] =
             [@ EXCEPT !.masumiTxId = masumiResult.txId, !.isVerified = TRUE]]
    ELSE records

\* The assignments of the .then callback as the log shows them: the callback
\* mutates the record object it captured, which is the record `id` of the log
\* unless that record was evicted.
Verify(records, id, masumiResult) ==
    [i \in DOMAIN records |->
        IF records[i].id = id /\ masumiResult.verified
        THEN [records[i] EXCEPT !.masumiTxId = masumiResult.txId, !.isVerified = TRUE]
        ELSE records[i]]

\* The .then callback of submitToBlockchain, run when the promise of
\* logAuditRecord resolves; txId.substring throws on undefined.
attestation(id, outcome) ==
    /\ pc = "idle"
    /\ events < MaxEvents
    /\ events' = events + 1
    /\ id \in pending
    /\ LET masumiResult == logAuditRecord(projectId, outcome)
       IN /\ blockchainRecords' = Verify(blockchainRecords, id, masumiResult)
          /\ unhandled' = (IF masumiResult.verified /\ masumiResult.txId = Undefined
                           THEN unhandled \cup {"attestation"} ELSE unhandled)
    /\ pending' = pending \ {id}
    /\ UNCHANGED << intervalId, intervalMs, liveTimers, timer, subscribers, timestamp,
                    energyKWh, lastReading, testSessions, testSessionsDefined,
                    currentSessionIndex, currentReadingIndex, totalReadings, totalValid,
                    totalFraud, inflight, pc, cur, published, fired, started, freshStart,
                    appended, verdicts, projectId, checkRequest, checkResponse, sessions,
                    simulationIntervals, simulationTimestamp, simulationDuration,
                    addReadingCalls, firings, finalizations, cardanoSubmissions,
                    stopRequests >>

\* ----------------------------------------------------------- subscriptions
subscribe(callback) ==
    /\ pc = "idle"
    /\ events < MaxEvents
    /\ events' = events + 1
    /\ Len(subscribers) < MaxSubscribers
    /\ subscribers' = Append(subscribers, callback)
    /\ UNCHANGED << intervalId, intervalMs, liveTimers, timer, timestamp, energyKWh,
                    lastReading, testSessions, testSessionsDefined, currentSessionIndex,
                    currentReadingIndex, blockchainRecords, totalReadings, totalValid,
                    totalFraud, inflight, pc, cur, pending, published, fired, started,
                    freshStart, appended, unhandled, verdicts, projectId, checkRequest,
                    checkResponse, sessions, simulationIntervals, simulationTimestamp,
                    simulationDuration, addReadingCalls, firings, finalizations,
                    cardanoSubmissions, stopRequests >>

\* The function subscribe returned: filter(s => s !== callback).
unsubscribe(callback) ==
    /\ pc = "idle"
    /\ events < MaxEvents
    /\ events' = events + 1
    /\ \E i \in DOMAIN subscribers : subscribers[i] = callback
    /\ subscribers' = SelectSeq(subscribers, LAMBDA s : s # callback)
    /\ UNCHANGED << intervalId, intervalMs, liveTimers, timer, timestamp, energyKWh,
                    lastReading, testSessions, testSessionsDefined, currentSessionIndex,
                    currentReadingIndex, blockchainRecords, totalReadings, totalValid,
                    totalFraud, inflight, pc, cur, pending, published, fired, started,
                    freshStart, appended, unhandled, verdicts, projectId, checkRequest,
                    checkResponse, sessions, simulationIntervals, simulationTimestamp,
                    simulationDuration, addReadingCalls, firings, finalizations,
                    cardanoSubmissions, stopRequests >>

\* -------------------------------------------------------------- audit query
\* Values of the ?limit= query parameter (Undefined: parameter absent).
LimitParams == {Undefined, Some(""), Some("0"), Some("1"), Some("2")}

parseInt(str) == CASE str = "0" -> 0 [] str = "1" -> 1 [] str = "2" -> 2 [] str = "3" -> 3

\* Array.prototype.slice(0, end).
Slice0(arr, end) ==
    IF end >= 0 THEN SubSeq(arr, 1, Min(end, Len(arr)))
    ELSE SubSeq(arr, 1, Max(0, Len(arr) + end))

\* getBlockchainRecords(limit?): limit is optional, and tested for truthiness.
getBlockchainRecords(records, limit) ==
    LET reversed == Reverse(records)
    IN IF limit # Undefined /\ limit[1] # 0 THEN Slice0(reversed, limit[1]) ELSE reversed

\* The body GET /api/blockchain-records answers with.
BlockchainRecordsBody(records, param) ==
    LET limit == IF param # Undefined /\ param[1] # "" THEN Some(parseInt(param[1])) ELSE Undefined
        result == getBlockchainRecords(records, limit)
    IN [records |-> result, total |-> Len(result)]

\* ------------------------------------------------------------ direct check
\* Bodies of POST /api/check-reading: a single reading, or an array of
\* readings.  The readings take the values on both sides of every threshold
\* of the classifier; three of them lack a field.
CheckVoltages == {199, 200, 260, 261}
CheckCurrents == {-1, 0, 50, 51}
CheckEnergies == {10, 20}

CheckReadings ==
    {TestReading(v, c, e) : v \in CheckVoltages, c \in CheckCurrents, e \in CheckEnergies}
        \cup {MalformedReading(0, 10, 10, {"voltage"}), MalformedReading(230, 0, 10, {"current"}),
              MalformedReading(230, 10, 0, {"energyKWh"})}

\* Arrays of three readings: the first has the highest energy, the other two
\* are within the voltage and current ranges.
CheckEarlier == TestReading(230, 10, 30)
CheckWindow == {TestReading(200, 0, e) : e \in CheckEnergies}

CheckArrays ==
    {<<>>} \cup {<<r>> : r \in CheckReadings}
           \cup {<<p, r>> : p, r \in CheckReadings}
           \cup {<<CheckEarlier, p, r>> : p, r \in CheckWindow}

CheckInputs ==
    {[isArray |-> FALSE, items |-> <<r>>] : r \in CheckReadings}
        \cup {[isArray |-> TRUE, items |-> a] : a \in CheckArrays}

\* res.json(result), and the answer of the catch block when evaluateReading
\* threw.
VerdictResponse(result) ==
    IF result = Thrown THEN [status |-> 500, body |-> [error |-> "Failed to check reading"]]
    ELSE [status |-> 200, body |-> result]

\* checkReadingResponse taking the first element of an array as previous.
checkReadingResponseFirstAsPrevious(input) ==
    IF input.isArray
    THEN IF Len(input.items) = 0 THEN [status |-> 400, body |-> [error |-> "Empty array"]]
         ELSE LET lastOfInput == input.items[Len(input.items)]
                  prevReading == IF Len(input.items) > 1 THEN Some(input.items[1]) ELSE Undefined
              IN VerdictResponse(evaluateReading(lastOfInput, prevReading))
    ELSE VerdictResponse(evaluateReading(input.items[1], Undefined))

\* The body POST /api/check-reading answers with.
checkReadingResponse(input) ==
    IF input.isArray
    THEN IF Len(input.items) = 0 THEN [status |-> 400, body |-> [error |-> "Empty array"]]
         ELSE LET lastOfInput == input.items[Len(input.items)]
                  prevReading == IF Len(input.items) > 1
                                 THEN Some(input.items[Len(input.items) - 1]) ELSE Undefined
              IN VerdictResponse(evaluateReading(lastOfInput, prevReading))
    ELSE VerdictResponse(evaluateReading(input.items[1], Undefined))

\* The handler of POST /api/check-reading; a run makes one call of it.
checkReading(input) ==
    /\ pc = "idle"
    /\ checkRequest = Undefined
    /\ checkRequest' = Some(input)
    /\ checkResponse' = Some(checkReadingResponse(input))
    /\ UNCHANGED << intervalId, intervalMs, liveTimers, timer, subscribers, timestamp,
                    energyKWh, lastReading, testSessions, testSessionsDefined,
                    currentSessionIndex, currentReadingIndex, blockchainRecords, totalReadings,
                    totalValid, totalFraud, inflight, pc, cur, pending, published, fired,
                    started, freshStart, appended, unhandled, events, verdicts, projectId,
                    sessions, simulationIntervals, simulationTimestamp, simulationDuration,
                    addReadingCalls, firings, finalizations, cardanoSubmissions,
                    stopRequests >>

\* ------------------------------------------------------ simulated sessions
\* Durations (in readings) a simulation is started with.
Durations == {1, 2, 3}

\* What the fraud-detection service answers to an addReading: a verdict, or
\* nothing usable (an error, caught by addReading).
DetectorResponses == {"VALID", "FRAUD", "error"}

MaxStopRequests == 1

\* POST /api/sessions/start: createSession, setInterval, registerSimulation.
\* A run simulates one session.
sessions_start(duration) ==
    /\ pc = "idle"
    /\ sessions = Undefined
    /\ sessions' = Some([readings |-> <<>>, status |-> "PENDING", onChainAction |-> "NONE",
                         isSimulating |-> TRUE])
    /\ simulationIntervals' = TRUE
    /\ simulationTimestamp' = 0
    /\ simulationDuration' = duration
    /\ UNCHANGED << intervalId, intervalMs, liveTimers, timer, subscribers, timestamp,
                    energyKWh, lastReading, testSessions, testSessionsDefined,
                    currentSessionIndex, currentReadingIndex, blockchainRecords, totalReadings,
                    totalValid, totalFraud, inflight, pc, cur, pending, published, fired,
                    started, freshStart, appended, unhandled, events, verdicts, projectId,
                    checkRequest, checkResponse, addReadingCalls, firings, finalizations,
                    cardanoSubmissions, stopRequests >>

\* The interval callback up to its await: a reading is generated for the
\* current `timestamp`, and addReading pushes it and posts the readings to
\* the fraud-detection service.
simulation_fire ==
    /\ pc = "idle"
    /\ simulationIntervals
    /\ firings < MaxFirings
    /\ firings' = firings + 1
    /\ sessions' = Some([sessions[1] EXCEPT !.readings =
                             Append(@, [timestamp |-> simulationTimestamp, finished |-> FALSE])])
    /\ addReadingCalls' = Append(addReadingCalls, simulationTimestamp)
    /\ UNCHANGED << intervalId, intervalMs, liveTimers, timer, subscribers, timestamp,
                    energyKWh, lastReading, testSessions, testSessionsDefined,
                    currentSessionIndex, currentReadingIndex, blockchainRecords, totalReadings,
                    totalValid, totalFraud, inflight, pc, cur, pending, published, fired,
                    started, freshStart, appended, unhandled, events, verdicts, projectId,
                    checkRequest, checkResponse, simulationIntervals, simulationTimestamp,
                    simulationDuration, finalizations, cardanoSubmissions, stopRequests >>

\* GuardianAgent.finalizeSession on the session record (stopSimulation's
\* clearInterval is in the actions that call it).
finalizeSession(session) ==
    [session EXCEPT
        !.status = IF @ = "PENDING" THEN "VALID" ELSE @,
        !.onChainAction = IF session.status = "PENDING" THEN "COMPLETE_SESSION" ELSE @,
        !.readings = [i \in DOMAIN @ |-> IF i = Len(@) THEN [@[i] EXCEPT !.finished = TRUE]
                                          ELSE @[i]],
        !.isSimulating = FALSE]

\* The rest of addReading once the service has answered its i-th pending
\* call, and the rest of the interval callback after it: timestamp++, and at
\* `duration` finalizeSession and submitToCardano.
addReading_resume(i, response) ==
    /\ pc = "idle"
    /\ i \in DOMAIN addReadingCalls
    /\ LET answered == IF response = "FRAUD"
                        THEN [sessions[1] EXCEPT !.status = "FRAUD",
                                                 !.onChainAction = "FLAG_FRAUD"]
                        ELSE sessions[1]
           done == simulationTimestamp + 1 >= simulationDuration
           final == IF done THEN finalizeSession(answered) ELSE answered
       IN /\ sessions' = Some(final)
          /\ simulationTimestamp' = simulationTimestamp + 1
          /\ simulationIntervals' = IF done THEN FALSE ELSE simulationIntervals
          /\ finalizations' = IF done THEN finalizations + 1 ELSE finalizations
          /\ cardanoSubmissions' = IF done /\ final.onChainAction # "NONE"
                                    THEN cardanoSubmissions + 1 ELSE cardanoSubmissions
    /\ addReadingCalls' = [j \in 1..(Len(addReadingCalls) - 1) |->
                              IF j < i THEN addReadingCalls[j] ELSE addReadingCalls[j + 1]]
    /\ UNCHANGED << intervalId, intervalMs, liveTimers, timer, subscribers, timestamp,
                    energyKWh, lastReading, testSessions, testSessionsDefined,
                    currentSessionIndex, currentReadingIndex, blockchainRecords, totalReadings,
                    totalValid, totalFraud, inflight, pc, cur, pending, published, fired,
                    started, freshStart, appended, unhandled, events, verdicts, projectId,
                    checkRequest, checkResponse, simulationDuration, firings, stopRequests >>

\* POST /api/sessions/:sessionId/stop for the session of the run.
sessions_stop ==
    /\ pc = "idle"
    /\ sessions # Undefined
    /\ stopRequests < MaxStopRequests
    /\ stopRequests' = stopRequests + 1
    /\ LET final == finalizeSession(sessions[1])
       IN /\ sessions' = Some(final)
          /\ cardanoSubmissions' = IF final.onChainAction # "NONE"
                                    THEN cardanoSubmissions + 1 ELSE cardanoSubmissions
    /\ simulationIntervals' = FALSE
    /\ finalizations' = finalizations + 1
    /\ UNCHANGED << intervalId, intervalMs, liveTimers, timer, subscribers, timestamp,
                    energyKWh, lastReading, testSessions, testSessionsDefined,
                    currentSessionIndex, currentReadingIndex, blockchainRecords, totalReadings,
                    totalValid, totalFraud, inflight, pc, cur, pending, published, fired,
                    started, freshStart, appended, unhandled, events, verdicts, projectId,
                    checkRequest, checkResponse, simulationTimestamp, simulationDuration,
                    addReadingCalls, firings >>

\* DELETE /api/sessions/:sessionId: stopSimulation.
sessions_delete ==
    /\ pc = "idle"
    /\ sessions # Undefined
    /\ simulationIntervals \/ sessions[1].isSimulating
    /\ simulationIntervals' = FALSE
    /\ sessions' = Some([sessions[1] EXCEPT !.isSimulating = FALSE])
    /\ UNCHANGED << intervalId, intervalMs, liveTimers, timer, subscribers, timestamp,
                    energyKWh, lastReading, testSessions, testSessionsDefined,
                    currentSessionIndex, currentReadingIndex, blockchainRecords, totalReadings,
                    totalValid, totalFraud, inflight, pc, cur, pending, published, fired,
                    started, freshStart, appended, unhandled, events, verdicts, projectId,
                    checkRequest, checkResponse, simulationTimestamp, simulationDuration,
                    addReadingCalls, firings, finalizations, cardanoSubmissions,
                    stopRequests >>

\* --------------------------------------------------------------------- time
\* The timers that are armed: the interval (while it can still fire within
\* the run) and the delay of every suspended tick.
TimerLive == intervalId /\ started < MaxTicks

Dues == {inflight[i].due : i \in DOMAIN inflight} \cup (IF TimerLive THEN {timer} ELSE {})

\* Time passes until the next timer is due; a due timer runs before time
\* passes again, and timers due together run in either order.
Advance ==
    /\ pc = "idle"
    /\ Dues # {}
    /\ 0 \notin Dues
    /\ LET d == CHOOSE x \in Dues : \A y \in Dues : x <= y
       IN /\ timer' = IF TimerLive THEN timer - d ELSE timer
          /\ inflight' = [i \in DOMAIN inflight |-> [inflight[i] EXCEPT !.due = @ - d]]
    /\ UNCHANGED << intervalId, intervalMs, liveTimers, subscribers, timestamp, energyKWh,
                    lastReading, testSessions, testSessionsDefined, currentSessionIndex,
                    currentReadingIndex, blockchainRecords, totalReadings, totalValid,
                    totalFraud, pc, cur, pending, published, fired, started, freshStart,
                    appended, unhandled, events, verdicts, projectId, checkRequest,
                    checkResponse, sessions, simulationIntervals, simulationTimestamp,
                    simulationDuration, addReadingCalls, firings, finalizations,
                    cardanoSubmissions, stopRequests >>

Next ==
    \/ \E ms \in Intervals, file \in Files : start(ms, file)
    \/ stop
    \/ \E draw \in RandomDraws : tick(draw)
    \/ submitToBlockchain_push
    \/ submitToBlockchain_evict
    \/ tick_resume
    \/ \E id \in pending, outcome \in Outcomes : attestation(id, outcome)
    \/ \E callback \in Callbacks : subscribe(callback)
    \/ \E callback \in Callbacks : unsubscribe(callback)
    \/ Advance

Spec == Init /\ [][Next]_vars

\* ------------------------------------------------------- a long-running engine
\* The engine after n serialized ticks of the replay data: started once with
\* the default interval, no consumer subscribed, every attestation answered
\* with a 200 except those of the records in `hanging`.
ReplayFlat == << SessionsA[1].readings[1], SessionsA[1].readings[2], SessionsA[2].readings[1] >>
ReplayIndex == << [session |-> 0, reading |-> 0], [session |-> 0, reading |-> 1],
                  [session |-> 1, reading |-> 0] >>

ReadingOfTick(k) ==
    LET r == ReplayFlat[((k - 1) % Len(ReplayFlat)) + 1]
    IN [timestamp |-> k, voltage |-> r.voltage, current |-> r.current,
        energyKWh |-> r.energyKWh, malformed |-> r.malformed]

ResultOfTick(k) ==
    evaluateReading(ReadingOfTick(k), IF k = 1 THEN Undefined ELSE Some(ReadingOfTick(k - 1)))

RecordOfTick(k, hanging) ==
    [NewRecord(k, ReadingOfTick(k), ResultOfTick(k)) EXCEPT
        !.isVerified = k \notin hanging,
        !.masumiTxId = IF k \in hanging THEN Undefined ELSE Some("0xremote")]

ValidOfTicks(n) == Cardinality({k \in 1..n : ResultOfTick(k).status = "VALID"})

AfterTicks(n, hanging) ==
    /\ intervalId = TRUE
    /\ intervalMs = DefaultIntervalMs
    /\ liveTimers = 1
    /\ timer = DefaultIntervalMs - SubmitDelayMs
    /\ subscribers = <<>>
    /\ timestamp = n
    /\ energyKWh = 0
    /\ lastReading = Some(ReadingOfTick(n))
    /\ testSessions = SessionsA
    /\ testSessionsDefined = TRUE
    /\ currentSessionIndex = ReplayIndex[(n % Len(ReplayFlat)) + 1].session
    /\ currentReadingIndex = ReplayIndex[(n % Len(ReplayFlat)) + 1].reading
    /\ blockchainRecords = [i \in 1..Min(n, MaxRecords) |->
                               RecordOfTick(Max(0, n - MaxRecords) + i, hanging)]
    /\ totalReadings = n
    /\ totalValid = ValidOfTicks(n)
    /\ totalFraud = n - ValidOfTicks(n)
    /\ inflight = <<>>
    /\ pc = "idle"
    /\ cur = Undefined
    /\ pending = hanging
    /\ published = Some([data |-> [timestamp |-> n, status |-> ResultOfTick(n).status,
                                   anomalyReason |-> ResultOfTick(n).anomalyReason,
                                   blockchainRecord |-> n,
                                   stats |-> [total |-> n, valid |-> ValidOfTicks(n),
                                              fraud |-> n - ValidOfTicks(n)]],
                         subscribed |-> <<>>, called |-> <<>>])
    /\ fired = n
    /\ freshStart = FALSE
    /\ appended = n
    /\ unhandled = {}
    /\ verdicts = [k \in 1..n |-> ResultOfTick(k).status]

\* Two records short of the log's capacity, the oldest record's attestation
\* call still unanswered.
WarmTicks == MaxRecords - 2

InitLong ==
    /\ AfterTicks(WarmTicks, {1})
    /\ NoSession
    /\ started = 0
    /\ events = 0
    /\ projectId \in ProjectIds
    /\ checkRequest = Undefined
    /\ checkResponse = Undefined

\* The engine left running: no call arrives, only its timers fire and the
\* attestation calls are answered.
NextLong ==
    \/ \E draw \in RandomDraws : tick(draw)
    \/ submitToBlockchain_push
    \/ submitToBlockchain_evict
    \/ tick_resume
    \/ \E id \in pending, outcome \in Outcomes : attestation(id, outcome)
    \/ Advance

\* The engine with consumers that call back into it and no attestation
\* answered.
NextFanout ==
    \/ \E ms \in Intervals, file \in Files : start(ms, file)
    \/ \E draw \in RandomDraws : tick(draw)
    \/ submitToBlockchain_push
    \/ submitToBlockchain_evict
    \/ tick_resume
    \/ \E callback \in Callbacks \cup ReentrantCallbacks : subscribe(callback)
    \/ \E callback \in Callbacks \cup ReentrantCallbacks : unsubscribe(callback)
    \/ Advance

SpecFanout == Init /\ [][NextFanout]_vars

\* The engine started and stopped over every kind of test-data file.
NextSource ==
    \/ \E ms \in Intervals, file \in SourceFiles : start(ms, file)
    \/ stop
    \/ \E draw \in RandomDraws : tick(draw)
    \/ submitToBlockchain_push
    \/ submitToBlockchain_evict
    \/ tick_resume
    \/ Advance

SpecSource == Init /\ [][NextSource]_vars

\* The engine from its construction with no consumer: it is started, its
\* timers fire, the attestation calls are answered or not.
NextDriver ==
    \/ \E ms \in Intervals, file \in Files : start(ms, file)
    \/ \E draw \in RandomDraws : tick(draw)
    \/ submitToBlockchain_push
    \/ submitToBlockchain_evict
    \/ tick_resume
    \/ \E id \in pending, outcome \in Outcomes : attestation(id, outcome)
    \/ Advance

SpecDriver == Init /\ [][NextDriver]_vars

\* The event loop runs every timer that is due and every continuation that
\* is ready; nothing makes the attestation service answer.
TimersFair ==
    /\ WF_vars(\E draw \in RandomDraws : tick(draw))
    /\ WF_vars(submitToBlockchain_push)
    /\ WF_vars(submitToBlockchain_evict)
    /\ WF_vars(tick_resume)
    /\ WF_vars(Advance)

\* The engine started on the test data and left to its event loop.
NextUnattended ==
    \/ \E ms \in Intervals : start(ms, FileA)
    \/ \E draw \in RandomDraws : tick(draw)
    \/ submitToBlockchain_push
    \/ submitToBlockchain_evict
    \/ tick_resume
    \/ \E id \in pending, outcome \in Outcomes : attestation(id, outcome)
    \/ Advance

SpecUnattended == Init /\ [][NextUnattended]_vars /\ TimersFair

\* The engine started on the test data, with callers of the direct check.
NextCheck ==
    \/ start(DefaultIntervalMs, FileA)
    \/ \E draw \in RandomDraws : tick(draw)
    \/ submitToBlockchain_push
    \/ submitToBlockchain_evict
    \/ tick_resume
    \/ \E input \in CheckInputs : checkReading(input)
    \/ Advance

SpecCheck == Init /\ [][NextCheck]_vars

\* The session-based API: one simulated session, the fraud-detection service
\* answering each addReading at any time and in any order.
NextSessions ==
    \/ \E duration \in Durations : sessions_start(duration)
    \/ simulation_fire
    \/ \E i \in DOMAIN addReadingCalls, response \in DetectorResponses :
           addReading_resume(i, response)
    \/ sessions_stop
    \/ sessions_delete

SpecSessions == Init /\ [][NextSessions]_vars

SpecLong == InitLong /\ [][NextLong]_vars

\* ===================================================================== claims
\* The ticks between their classify step and the end of their continuation.
TicksInProgress == inflight \o cur

AtRest == pc = "idle"

\* C1: ticks are strictly serialized: no tick classifies its reading while an
\* earlier tick has not finished its append, count, publish and lastReading
\* assignment, whatever the timer interval.
C1_TicksSerialized == Len(TicksInProgress) <= 1

\* C2: every tick after the first is classified with `previous` equal to the
\* reading of the immediately preceding tick (the firing with the preceding
\* Date.now() ordinal), also across a wrap of the replay indices.
C2_PreviousIsPredecessor ==
    \A i \in DOMAIN TicksInProgress :
        LET t == TicksInProgress[i]
        IN t.reading.timestamp > 1 =>
              /\ t.previous # Undefined
              /\ t.previous[1].timestamp = t.reading.timestamp - 1

\* C3: the first tick after every start() is classified with no previous
\* reading, so it is never FRAUD for an energy decrease.
C3_PreviousResetOnStart ==
    \A i \in DOMAIN TicksInProgress :
        LET t == TicksInProgress[i]
        IN t.first => /\ t.previous = Undefined
                      /\ t.result.anomalyReason # "Energy decreased"

\* C4: while the driver is stopped (stop() returned, start() not called again)
\* no tick is in flight, and no record is appended, no counter changes and no
\* event is published.
C4_NothingWhileStopped ==
    [][~intervalId =>
          /\ TicksInProgress = <<>>
          /\ ~intervalId' => /\ appended' = appended
                              /\ <<totalReadings', totalValid', totalFraud'>> =
                                     <<totalReadings, totalValid, totalFraud>>
                              /\ published' = published]_vars

\* C5: a subscriber that throws during publish is isolated: every subscribed
\* consumer is still called with the event, the record and the counters are
\* as without the failure, and the reading becomes lastReading.
C5_SubscriberFailureIsolated ==
    [][pc = "submitted" =>
          /\ published'[1].called = subscribers
          /\ totalReadings' = totalReadings + 1
          /\ \E i \in DOMAIN blockchainRecords' : blockchainRecords'[i] = cur[1].record
          /\ lastReading' = Some(cur[1].reading)]_vars

\* The ways the POST to /log fails.
CallFailures == {"http500", "network_error", "timeout"}

\* C6: when the /log call fails (network error, timeout, non-2xx), the record
\* stays isVerified = false with no masumiTxId, and nothing reaches the tick
\* or the subscribers.
C6_FailedAttestationLeavesUnverified ==
    [][\A id \in pending, outcome \in CallFailures :
          (projectId # "MOCK_PROJECT_ID" /\ attestation(id, outcome)) =>
              /\ \A i \in DOMAIN blockchainRecords' :
                    blockchainRecords'[i].id = id =>
                        /\ blockchainRecords'[i].isVerified = FALSE
                        /\ blockchainRecords'[i].masumiTxId = Undefined
              /\ unhandled' = unhandled
              /\ published' = published]_vars

\* The first record is the oldest one: its id (push ordinal) is the smallest.
OldestFirst(records) ==
    \A i \in 2..Len(records) : records[1].id < records[i].id

Ids(records) == {records[i].id : i \in DOMAIN records}

\* No record has left: every record of the earlier log is still at its place.
Kept(earlier, later) ==
    /\ Len(later) >= Len(earlier)
    /\ \A i \in DOMAIN earlier : later[i].id = earlier[i].id

\* C7: the log holds at most 1000 records at rest and at most 1001 inside an
\* append (between the push and the shift), and a record that leaves the log
\* is the oldest one.
C7_CapacityBound ==
    [][/\ Len(blockchainRecords) <= MaxRecords + 1
       /\ Len(blockchainRecords') <= MaxRecords + 1
       /\ pc # "pushed" => Len(blockchainRecords) <= MaxRecords
       /\ pc' # "pushed" => Len(blockchainRecords') <= MaxRecords
       /\ blockchainRecords' # blockchainRecords =>
             \/ Kept(blockchainRecords, blockchainRecords')
             \/ /\ OldestFirst(blockchainRecords)
                /\ blockchainRecords' = Tail(blockchainRecords)]_vars

\* The eviction of the oldest record has just happened.
C7_Witness ==
    /\ pc = "submitted"
    /\ appended = MaxRecords + 1
    /\ Len(blockchainRecords) = MaxRecords
    /\ blockchainRecords[1].id = 2

\* C8: getBlockchainRecords() with no limit returns the min(N, 1000) most
\* recently appended records, most recent first, N being the appends so far.
C8_QueryReturnsMostRecent ==
    AtRest =>
        LET result == getBlockchainRecords(blockchainRecords, Undefined)
            n == Min(appended, MaxRecords)
        IN /\ Len(result) = n
           /\ [i \in 1..Len(result) |-> result[i].id] = [i \in 1..n |-> appended - i + 1]

\* More than 1000 appends were made and a query can run.
C8_Witness == AtRest /\ appended > MaxRecords /\ Len(blockchainRecords) = MaxRecords

\* Limits a caller can give to getBlockchainRecords.
Limits == 0..3

\* C9: for every limit >= 0, 0 included, getBlockchainRecords(limit) returns at
\* most `limit` records: the `limit` most recent ones, most recent first.
C9_LimitRespected ==
    AtRest =>
        \A limit \in Limits :
            LET result == getBlockchainRecords(blockchainRecords, Some(limit))
                all == Reverse(blockchainRecords)
            IN /\ Len(result) <= limit
               /\ result = SubSeq(all, 1, Min(limit, Len(all)))

\* C10: the `total` of the audit query's body is the number of records held
\* in the log, for every limit parameter.
C10_TotalIsHeldCount ==
    AtRest =>
        \A param \in LimitParams :
            BlockchainRecordsBody(blockchainRecords, param).total = Len(blockchainRecords)

\* The ticks in progress that were issued the verdict `status`.
InProgress(status) ==
    Cardinality({i \in DOMAIN TicksInProgress : TicksInProgress[i].result.status = status})

\* The verdicts issued so far with the status `status`.
Issued(status) == Cardinality({i \in DOMAIN verdicts : verdicts[i] = status})

\* C11: totalReadings is the number of readings processed (classified and
\* counted) and the sum of totalValid and totalFraud; totalValid and
\* totalFraud are the numbers of VALID and FRAUD verdicts issued to the
\* processed readings; no step, an eviction included, decreases a counter.
C11_CountersConsistent ==
    [][/\ totalReadings' = totalValid' + totalFraud'
       /\ totalValid' = Issued("VALID")' - InProgress("VALID")'
       /\ totalFraud' = Issued("FRAUD")' - InProgress("FRAUD")'
       /\ totalReadings' >= totalReadings
       /\ totalValid' >= totalValid
       /\ totalFraud' >= totalFraud]_vars

\* The log has evicted a record and the reading that caused it is counted.
C11_Witness ==
    /\ AtRest
    /\ appended > MaxRecords
    /\ Len(blockchainRecords) = MaxRecords
    /\ totalReadings = appended
    /\ totalFraud > 0

\* The records of the log with the status `status`.
Held(status) ==
    Cardinality({i \in DOMAIN blockchainRecords : blockchainRecords[i].status = status})

\* C12: the counters change once per processed reading, by the step that
\* publishes its event; the event of the k-th appended record carries
\* stats.total = k and the valid and fraud counts of the k records appended
\* so far; between callbacks, where a query or another tick runs, the number
\* of appends equals totalReadings.
C12_CountersAtomicWithAppend ==
    [][/\ pc' = "idle" => appended' = totalReadings'
       /\ totalReadings' # totalReadings =>
              pc = "submitted" /\ totalReadings' = totalReadings + 1
       /\ pc = "submitted" =>
              LET data == published'[1].data
              IN /\ totalReadings' = totalReadings + 1
                 /\ data.stats.total = data.blockchainRecord
                 /\ data.stats.total = appended
                 /\ appended <= MaxRecords =>
                        data.stats = [total |-> Len(blockchainRecords),
                                      valid |-> Held("VALID"), fraud |-> Held("FRAUD")]]_vars

\* Two events were published while a later tick was suspended.
C12_Witness ==
    /\ AtRest
    /\ inflight # <<>>
    /\ published # Undefined
    /\ published[1].data.stats.total = 2
    /\ published[1].data.stats.fraud = 1

\* The statuses of a sequence of records.
Statuses(records) == [i \in DOMAIN records |-> records[i].status]

\* C13: the reading whose submission completes gets one record, whatever
\* its verdict, with the status, anomalyReason, timestamp and reading of the
\* verdict and reading that produced it; every reading submitted has been
\* appended once; the statuses of the log in insertion order are those of the
\* verdicts in processing order (of the last MaxRecords appended).
C13_OneRecordPerReading ==
    [][/\ pc = "idle" /\ pc' = "pushed" =>
              LET t == Head(inflight)
                  r == blockchainRecords'[Len(blockchainRecords')]
              IN /\ appended' = appended + 1
                 /\ blockchainRecords' = Append(blockchainRecords, r)
                 /\ t.result = evaluateReading(t.reading, t.previous)
                 /\ r.status = t.result.status
                 /\ r.anomalyReason = t.result.anomalyReason
                 /\ r.timestamp = t.reading.timestamp
                 /\ r.reading = t.reading
       /\ appended' # appended => pc = "idle" /\ pc' = "pushed"
       /\ appended' = Len(verdicts') - Len(inflight')
       /\ Statuses(blockchainRecords') =
              SubSeq(verdicts', appended' - Len(blockchainRecords') + 1, appended')]_vars

\* A VALID and a FRAUD reading have both been recorded, in that order.
C13_Witness ==
    /\ AtRest
    /\ Len(blockchainRecords) >= 2
    /\ blockchainRecords[1].status = "VALID"
    /\ blockchainRecords[2].status = "FRAUD"
    /\ blockchainRecords[2].anomalyReason = "Energy decreased"

C15_RecordFieldsFrozen ==
    [][/\ \A i \in DOMAIN blockchainRecords, j \in DOMAIN blockchainRecords' :
              LET old == blockchainRecords[i]
                  new == blockchainRecords'[j]
              IN old.id = new.id =>
                    /\ new.txHash = old.txHash
                    /\ new.timestamp = old.timestamp
                    /\ new.status = old.status
                    /\ new.anomalyReason = old.anomalyReason
                    /\ new.reading = old.reading
                    /\ new.blockNumber = old.blockNumber
                    /\ new.confirmations = old.confirmations
                    /\ new # old => /\ old.id \in pending
                                    /\ old.id \notin pending'
                                    /\ ~old.isVerified
                                    /\ old.masumiTxId = Undefined
       /\ pending' \ pending \subseteq {appended + 1}
       /\ \A id \in pending : id <= appended]_vars

\* The first record was verified by its attestation, a later one is not yet.
C15_Witness ==
    /\ AtRest
    /\ Len(blockchainRecords) >= 2
    /\ blockchainRecords[1].isVerified
    /\ blockchainRecords[1].masumiTxId = Some("0xremote")
    /\ ~blockchainRecords[2].isVerified
    /\ 2 \in pending

\* C16: the step that completes the attestation of a record modifies no
\* other record; if the record was evicted before, the step leaves the log
\* as it was (same records, same order, same fields) and raises no error.
C16_LateAttestationHarmless ==
    [][\A id \in pending \ pending' :
          /\ Len(blockchainRecords') = Len(blockchainRecords)
          /\ \A i \in DOMAIN blockchainRecords :
                 /\ blockchainRecords'[i].id = blockchainRecords[i].id
                 /\ blockchainRecords[i].id # id => blockchainRecords'[i] = blockchainRecords[i]
          /\ id \notin Ids(blockchainRecords) =>
                 /\ blockchainRecords' = blockchainRecords
                 /\ unhandled' = unhandled]_vars

Occurrences(arr, c) == Cardinality({i \in DOMAIN arr : arr[i] = c})

\* C18: a publish calls every consumer subscribed when it starts exactly
\* once, whatever the callbacks do during the publish (unsubscribe
\* themselves or another consumer, subscribe a consumer).
C18_ExactlyOnceDelivery ==
    [][pc = "submitted" =>
          \A c \in Callbacks \cup ReentrantCallbacks :
              Occurrences(published'[1].called, c) = Occurrences(subscribers, c)]_vars

\* The engine holds no replay data: the last load left testSessions empty
\* or undefined.
SourceEmpty == ~testSessionsDefined \/ testSessions = <<>>

\* C19: while the replay source is empty or misconfigured the driver does
\* not tick: no reading is produced and classified, and, no earlier tick
\* being in progress, no record is appended, no counter changes and no event
\* is published.
C19_NoTickOnEmptySource ==
    [][SourceEmpty =>
          /\ verdicts' = verdicts
          /\ Len(inflight') <= Len(inflight)
          /\ TicksInProgress = <<>> =>
                 /\ appended' = appended
                 /\ <<totalReadings', totalValid', totalFraud'>> =
                        <<totalReadings, totalValid, totalFraud>>
                 /\ published' = published]_vars

\* The replay reading the next tick takes, when there is one.
NextTestReading == testSessions[currentSessionIndex + 1].readings[currentReadingIndex + 1]

HasNextTestReading ==
    /\ testSessionsDefined
    /\ currentSessionIndex < Len(testSessions)
    /\ currentReadingIndex < Len(testSessions[currentSessionIndex + 1].readings)

\* C20: the tick that takes a malformed reading from the source is skipped:
\* the reading is not classified and not submitted, so no record is
\* appended, no counter changes and no event is published for it; the timer
\* stays armed and the next tick takes the next reading.
C20_MalformedReadingSkipped ==
    [][(/\ pc = "idle"
        /\ started' = started + 1
        /\ HasNextTestReading
        /\ NextTestReading.malformed # {}) =>
          /\ verdicts' = verdicts
          /\ inflight' = inflight
          /\ <<appended', totalReadings', totalValid', totalFraud', published'>> =
                 <<appended, totalReadings, totalValid, totalFraud, published>>
          /\ intervalId'
          /\ timer' = intervalMs
          /\ <<currentSessionIndex', currentReadingIndex'>> #
                 <<currentSessionIndex, currentReadingIndex>>]_vars

\* The evaluations of the classifier the state shows: the one the direct
\* check made for its last request, and those of the ticks in progress.
CheckEvaluated ==
    checkRequest # Undefined /\ checkRequest[1].items # <<>>

CheckItems == checkRequest[1].items

Evaluations ==
    {[reading |-> TicksInProgress[i].reading, previous |-> TicksInProgress[i].previous,
      result |-> TicksInProgress[i].result] : i \in DOMAIN TicksInProgress}
        \cup (IF CheckEvaluated /\ checkResponse[1].status = 200
              THEN {[reading |-> CheckItems[Len(CheckItems)],
                     previous |-> IF checkRequest[1].isArray /\ Len(CheckItems) > 1
                                  THEN Some(CheckItems[Len(CheckItems) - 1]) ELSE Undefined,
                     result |-> checkResponse[1].body]}
              ELSE {})

\* The field `field` of the reading is a number.
IsNumber(reading, field) == field \notin reading.malformed

Fraud(reason) == [status |-> "FRAUD", anomalyReason |-> reason]

\* C21: the rules are applied in the order voltage < 200, voltage > 260,
\* current < 0, current > 50, energy decrease, and the first match wins: a
\* reading with voltage < 200 is FRAUD "Voltage too low" whatever its current,
\* its energy and the previous reading; one with voltage > 260 is FRAUD
\* "Voltage too high" also when its current is negative; one within the
\* voltage range with a current out of range gets the current verdict
\* whatever its energy.  A direct check of a reading with voltage < 200 is
\* answered, with that verdict.
C21_RuleOrder ==
    /\ \A ev \in Evaluations :
          LET r == ev.reading
          IN IsNumber(r, "voltage") =>
                /\ r.voltage < 200 => ev.result = Fraud("Voltage too low")
                /\ r.voltage > 260 => ev.result = Fraud("Voltage too high")
                /\ (r.voltage >= 200 /\ r.voltage <= 260 /\ IsNumber(r, "current")) =>
                       /\ r.current < 0 => ev.result = Fraud("Current negative")
                       /\ r.current > 50 => ev.result = Fraud("Current too high")
    /\ CheckEvaluated =>
          LET r == CheckItems[Len(CheckItems)]
          IN (IsNumber(r, "voltage") /\ (r.voltage < 200 \/ r.voltage > 260)) =>
                checkResponse[1].status = 200

\* A reading that matches the rules 2, 3 and 5 was checked and got the
\* verdict of rule 2.
C21_Witness ==
    /\ checkRequest = Some([isArray |-> TRUE,
                            items |-> <<TestReading(260, 0, 20), TestReading(261, -1, 10)>>])
    /\ checkResponse = Some([status |-> 200, body |-> Fraud("Voltage too high")])

\* Every field of the reading is a number.
WellFormed(reading) == reading.malformed = {}

InRange(reading) ==
    /\ 200 <= reading.voltage /\ reading.voltage <= 260
    /\ 0 <= reading.current /\ reading.current <= 50

Valid == [status |-> "VALID", anomalyReason |-> NoReason]

C23_DirectCheckStateless ==
    [][checkRequest' # checkRequest =>
          LET input == checkRequest'[1]
              n == Len(input.items)
              previous == IF input.isArray /\ n > 1 THEN Some(input.items[n - 1]) ELSE Undefined
          IN /\ n > 0 =>
                   LET result == evaluateReading(input.items[n], previous)
                   IN result # Thrown => checkResponse' = Some([status |-> 200, body |-> result])
             /\ <<lastReading', blockchainRecords', totalReadings', totalValid', totalFraud'>> =
                    <<lastReading, blockchainRecords, totalReadings, totalValid, totalFraud>>
             /\ <<timestamp', energyKWh', currentSessionIndex', currentReadingIndex', inflight',
                   pending', published', subscribers', intervalId', timer'>> =
                    <<timestamp, energyKWh, currentSessionIndex, currentReadingIndex, inflight,
                      pending, published, subscribers, intervalId, timer>>]_vars

\* The driver's last reading has a higher energy than a single reading that
\* was checked and found VALID.
C23_Witness ==
    /\ checkRequest # Undefined
    /\ ~checkRequest[1].isArray
    /\ checkResponse = Some([status |-> 200, body |-> Valid])
    /\ lastReading # Undefined
    /\ totalReadings >= 2
    /\ evaluateReading(CheckItems[1], lastReading) = Fraud("Energy decreased")

\* The limits of the two calls of a query: none, or a number.
QueryLimits == {Undefined} \cup {Some(limit) : limit \in Limits}

\* C24 as stated: two calls of getBlockchainRecords with the same limit and
\* no append between them return identical results, isVerified and
\* masumiTxId included, whatever else happens between the two calls.  (Stated
\* for one step: the calls run between callbacks, and rest states with no
\* append between them are joined by steps from rest to rest.)
C24_QueryIdempotent ==
    [][(AtRest /\ AtRest' /\ appended' = appended) =>
          \A limit \in QueryLimits :
              getBlockchainRecords(blockchainRecords', limit) =
                  getBlockchainRecords(blockchainRecords, limit)]_vars

\* C24, amended: two calls of getBlockchainRecords with the same limit and
\* neither an append nor the completion of an attestation between them return
\* identical results; with completions of attestations between them the two
\* results hold the same records in the same order and differ at most in the
\* isVerified and masumiTxId of the records whose attestation completed.
C24_QueryIdempotentBetweenAttestations ==
    [][(AtRest /\ AtRest' /\ appended' = appended) =>
          \A limit \in QueryLimits :
              LET before == getBlockchainRecords(blockchainRecords, limit)
                  after == getBlockchainRecords(blockchainRecords', limit)
              IN /\ pending' = pending => after = before
                 /\ Len(after) = Len(before)
                 /\ \A i \in DOMAIN before :
                        /\ [after[i] EXCEPT !.isVerified = FALSE, !.masumiTxId = Undefined] =
                               [before[i] EXCEPT !.isVerified = FALSE, !.masumiTxId = Undefined]
                        /\ after[i] # before[i] => before[i].id \in pending \ pending']_vars

\* A query with limit 1 returns the newest of two records, verified by its
\* attestation while the older record is still unverified.
C24_Witness ==
    /\ AtRest
    /\ appended = 2
    /\ pending = {1}
    /\ LET result == getBlockchainRecords(blockchainRecords, Some(1))
       IN /\ Len(result) = 1
          /\ result[1].id = 2
          /\ result[1].isVerified
          /\ result[1].masumiTxId # Undefined

\* C25: at most one interval timer is live, and it is the one intervalId
\* holds; while the driver is RUNNING no step creates a timer, changes the
\* period or reloads the test data (start() changes nothing), while it is
\* STOPPED no step clears a timer (stop() changes nothing); one tick at a
\* time writes to the log and the counters: from a tick's push to the end of
\* its continuation no other tick pushes or counts.
C25_SingleTickLoop ==
    [][/\ liveTimers' <= 1
       /\ intervalId' <=> liveTimers' = 1
       /\ (intervalId /\ intervalId') =>
              <<liveTimers', intervalMs', testSessions', testSessionsDefined'>> =
                  <<liveTimers, intervalMs, testSessions, testSessionsDefined>>
       /\ (~intervalId /\ ~intervalId') => liveTimers' = liveTimers
       /\ Len(cur') <= 1
       /\ (pc' = "idle") <=> (cur' = Undefined)
       /\ pc # "idle" =>
              /\ appended' = appended
              /\ cur' # Undefined => cur' = cur
              /\ totalReadings' # totalReadings =>
                     /\ published'[1].data.blockchainRecord = cur[1].record.id
                     /\ cur' = Undefined
       /\ pc = "idle" =>
              /\ <<totalReadings', totalValid', totalFraud'>> =
                     <<totalReadings, totalValid, totalFraud>>
              /\ appended' # appended =>
                     /\ cur' # Undefined
                     /\ cur'[1].record.id = appended']_vars

\* The driver was started, stopped and started again; a tick is writing
\* while a later tick is suspended.
C25_Witness ==
    /\ intervalId
    /\ liveTimers = 1
    /\ events >= 3
    /\ pc = "pushed"
    /\ cur # Undefined
    /\ inflight # <<>>

\* C26: every record with isVerified = true has a masumiTxId that is defined
\* and not empty, and no attestation callback has thrown, whatever the
\* attestation service answered (a 200 carrying neither txId nor hash
\* included).
C26_VerifiedHasTxId ==
    /\ \A i \in DOMAIN blockchainRecords :
          blockchainRecords[i].isVerified =>
              /\ blockchainRecords[i].masumiTxId # Undefined
              /\ blockchainRecords[i].masumiTxId # Some("")
    /\ "attestation" \notin unhandled

\* C27: a call of an unsubscribe function (between callbacks) removes one
\* subscription, the one it was returned for: the registry loses exactly one
\* entry, an entry of that callback, and every other subscription, another
\* one of the same callback included, stays in place and in order.
C27_UnsubscribeRemovesOne ==
    [][(pc = "idle" /\ Len(subscribers') < Len(subscribers)) =>
          \E i \in DOMAIN subscribers :
              subscribers' = SubSeq(subscribers, 1, i - 1)
                                 \o SubSeq(subscribers, i + 1, Len(subscribers))]_vars

\* C28: when a tick that uses replay data starts, currentSessionIndex is the
\* index of a loaded session and currentReadingIndex the index of one of its
\* readings, after any ticks and any stop()/start() cycles that reload the
\* data; so the tick finds a reading.
C28_ReplayIndicesInRange ==
    [][(started' = started + 1 /\ testSessionsDefined /\ Len(testSessions) > 0) =>
          /\ 0 <= currentSessionIndex
          /\ currentSessionIndex < Len(testSessions)
          /\ 0 <= currentReadingIndex
          /\ currentReadingIndex < Len(testSessions[currentSessionIndex + 1].readings)]_vars

\* C29: a simulated session started with duration D gets the readings with
\* the timestamps 0, 1, ... in order, each once and at most D of them, exactly
\* D when the simulation has finalized it; it is finalized at most once and
\* submitted to Cardano at most once; whatever the interval, the delay of the
\* fraud-detection responses and the moment of a stop request.
C29_SimulationDeliversDuration ==
    sessions # Undefined =>
        LET readings == sessions[1].readings
        IN /\ Len(readings) <= simulationDuration
           /\ \A i \in DOMAIN readings : readings[i].timestamp = i - 1
           /\ finalizations <= 1
           /\ cardanoSubmissions <= 1
           /\ (finalizations = 1 /\ stopRequests = 0) => Len(readings) = simulationDuration

\* The session has been finalized.
Finalized == finalizations > 0

\* C30: the status of a session moves only from PENDING to VALID or to
\* FRAUD; a FRAUD session stays FRAUD; once finalizeSession has returned, the
\* status, the onChainAction and the readings of the session do not change,
\* whatever addReading calls are still awaiting their response.
C30_SessionFinalAfterFinalize ==
    [][(sessions # Undefined /\ sessions' # Undefined) =>
          LET old == sessions[1]
              new == sessions'[1]
          IN /\ new.status # old.status =>
                    old.status = "PENDING" /\ new.status \in {"VALID", "FRAUD"}
             /\ old.status = "FRAUD" => new.status = "FRAUD"
             /\ Finalized =>
                    /\ new.status = old.status
                    /\ new.onChainAction = old.onChainAction
                    /\ new.readings = old.readings]_vars

====
